---- MODULE Spec2Model ----
(***************************************************************************)
(* Model of the REScoop directory scraper (kcristinaa/scraping):           *)
(*   src/scraper-rescoop.py            bulk run (thread pool, batch write)  *)
(*   src/scraper-trineflex-REScoop.py  incremental run (page by page)       *)
(* Both files share scrape_page, split_location, get_coordinates and        *)
(* save_to_mongo verbatim; the drivers (main) differ.                       *)
(*                                                                         *)
(* Python str values are sequences of one-character strings, so that        *)
(* str.split and the f-string of the geocoding query are computed, not      *)
(* assumed.  Coordinates, hrefs and tag texts are opaque TLA+ strings.      *)
(***************************************************************************)
EXTENDS Naturals, Sequences, FiniteSets, TLC

VARIABLES
    mode,           \* which entry point runs: a driver (bulk, incremental) or a function
    pc,             \* position of the driver (main) or of the harness of a function
    store,          \* the Mongo collection trineflex.rescoop: a sequence of documents
    next_id,        \* the next _id the collection hands out
    existing_orgs,  \* main's existing_orgs: the names loaded from the store
    page_number,    \* find_max_pages' page_number
    max_pages,      \* main's max_pages
    i,              \* main's loop variable over pages (incremental)
    page_data,      \* main's page_data: the records of the page being processed
    pending,        \* bulk: pages whose future has not completed yet
    data,           \* bulk: main's data, the pooled records
    rows,           \* bulk: the rows of df already given City/Country/Latitude/Longitude
    abort,          \* the exception that ended the run ("none" while it runs)
    geocoded,       \* history: the names passed to split_location/get_coordinates,
                    \*          each with whether it was in existing_orgs at that time
    written,        \* history: the names passed to save_to_mongo, likewise
    fetches,        \* history: the number of page fetches (requests.get) made so far
    served,         \* history: the number of cards the site has shown to scrape_page
    scraped,        \* history: the pages main has called scrape_page on, in order
    saw_known,      \* history: a card or record with a known name has been met
    saw_empty,      \* history: the pages on which scrape_page found zero cards
    geo,            \* the last get_coordinates call: its arguments, the service, the outcome
    calls,          \* harness of save_to_mongo: the calls made, in order
    parsed,         \* the last split_location call: its argument and what it gave
    writers         \* concurrent runs inside save_to_mongo: each one's record and position

vars == <<mode, pc, store, next_id, existing_orgs, page_number, max_pages, i, page_data,
          pending, data, rows, abort, geocoded, written, fetches, served,
          scraped, saw_known, saw_empty, geo, calls, parsed, writers>>

---------------------------------------------------------------------------
(* Python values *)

\* None, where a scalar (a coordinate, an element, an href) is expected
None == "None"

\* None, where a str is expected (strs are sequences of characters)
NoneStr == <<"None">>

\* bool(s) of an optional str: None and "" are falsy
Truthy(s) == s # NoneStr /\ s # <<>>

\* the separator ', ' of split_location and of the geocoding query
Sep == <<",", " ">>

\* location.split(', '): the parts between non-overlapping separators, left to right
RECURSIVE split(_)
split(s) ==
    LET at(k) == s[k] = "," /\ s[k + 1] = " "
        hits == {k \in 1..(Len(s) - 1) : at(k)}
    IN IF hits = {} THEN <<s>>
       ELSE LET k == CHOOSE k \in hits : \A j \in hits : k <= j
            IN <<SubSeq(s, 1, k - 1)>> \o split(SubSeq(s, k + 2, Len(s)))

\* a variant that keeps the second part instead of the last
split_location_second(location) ==
    LET parts == split(location)
    IN IF Len(parts) >= 2 THEN <<parts[1], parts[2]>> ELSE <<location, NoneStr>>

\* split_location(location) -> (city, country)
split_location(location) ==
    LET parts == split(location)
    IN IF Len(parts) >= 2 THEN <<parts[1], parts[Len(parts)]>> ELSE <<location, NoneStr>>

---------------------------------------------------------------------------
(* The geocoding service (geopy's Nominatim) *)

\* what geolocator.geocode returns: a location or None
NoResult == [found |-> FALSE, latitude |-> None, longitude |-> None]
CityHit == [found |-> TRUE, latitude |-> "50.63", longitude |-> "5.57"]
CountryHit == [found |-> TRUE, latitude |-> "50.50", longitude |-> "4.47"]

\* the failures geocode raises; "Exception" is any other error
GeoFailures == {"GeocoderTimedOut", "GeocoderInsufficientPrivileges",
                "GeocoderServiceError", "Exception"}

\* the service during one get_coordinates call: what it knows at city level and at
\* country level, and whether the n-th query of the call succeeds or how it fails
Services == [city_level : {NoResult, CityHit},
             country_level : {NoResult, CountryHit},
             fail : [1..3 -> {"ok"} \cup GeoFailures]]

\* isinstance(exc, cls) on geopy's hierarchy: both named errors derive from
\* GeocoderServiceError, and everything derives from Exception
IsInstance(exc, cls) ==
    \/ cls = exc
    \/ cls = "Exception"
    \/ cls = "GeocoderServiceError"
          /\ exc \in {"GeocoderTimedOut", "GeocoderInsufficientPrivileges"}

\* f'{city}, {country}'
FormatQuery(city, country) == city \o Sep \o country

\* geolocator.geocode(q), the n-th query of the call
geocode(svc, n, q) ==
    IF svc.fail[n] # "ok" THEN [exc |-> svc.fail[n], location |-> NoResult]
    ELSE [exc |-> "none",
          location |-> IF Len(split(q)) >= 2 THEN svc.city_level ELSE svc.country_level]

---------------------------------------------------------------------------
(* get_coordinates *)

Return_lat_only(lat, lon, qs) ==
    [raised |-> "none", lat |-> lat, lon |-> None, queries |-> qs]

Return(lat, lon, qs) == [raised |-> "none", lat |-> lat, lon |-> lon, queries |-> qs]
Raise(exc, qs) == [raised |-> exc, lat |-> None, lon |-> None, queries |-> qs]
Query(q, phase) == [q |-> q, phase |-> phase]

\* a try block without the country-centroid fallback
try_block_no_fallback(city, country, svc) ==
    LET q1 == IF Truthy(city) /\ Truthy(country) THEN FormatQuery(city, country)
              ELSE country
        a1 == geocode(svc, 1, q1)
        l1 == <<Query(q1, "first")>>
    IN IF a1.exc # "none" THEN Raise(a1.exc, l1)
       ELSE IF a1.location.found
            THEN Return(a1.location.latitude, a1.location.longitude, l1)
            ELSE Return(None, None, l1)

\* the body of the outer try: the first attempt and the country-centroid fallback
try_block(city, country, svc) ==
    LET q1 == IF Truthy(city) /\ Truthy(country) THEN FormatQuery(city, country)
              ELSE country
        a1 == geocode(svc, 1, q1)
        l1 == <<Query(q1, "first")>>
    IN IF a1.exc # "none" THEN Raise(a1.exc, l1)
       ELSE IF a1.location.found
            THEN Return(a1.location.latitude, a1.location.longitude, l1)
       ELSE IF Truthy(country)
            THEN LET a2 == geocode(svc, 2, country)
                     l2 == l1 \o <<Query(country, "fallback")>>
                 IN IF a2.exc # "none" THEN Raise(a2.exc, l2)
                    ELSE IF a2.location.found
                         THEN Return(a2.location.latitude, a2.location.longitude, l2)
                         ELSE Return(None, None, l2)
       ELSE Return(None, None, l1)

\* the body of the inner try: one more query, after the queries qs
retry_block(city, country, svc, qs) ==
    LET one(q) ==
            LET a == geocode(svc, Len(qs) + 1, q)
                l == qs \o <<Query(q, "retry")>>
            IN IF a.exc # "none" THEN Raise(a.exc, l)
               ELSE IF a.location.found
                    THEN Return(a.location.latitude, a.location.longitude, l)
                    ELSE Return(None, None, l)
    IN IF Truthy(city) /\ Truthy(country) THEN one(FormatQuery(city, country))
       ELSE IF Truthy(country) THEN one(country)
       ELSE Return(None, None, qs)

\* the except clauses without the last one
outer_clauses_no_catch_all ==
    <<"GeocoderTimedOut", "GeocoderInsufficientPrivileges", "GeocoderServiceError">>

\* the except clauses of the outer try, in order
outer_clauses ==
    <<"GeocoderTimedOut", "GeocoderInsufficientPrivileges", "GeocoderServiceError",
      "Exception">>

\* a handler that retries on every service error
retries_on_service_error(cls) == cls \in {"GeocoderTimedOut", "GeocoderServiceError"}

\* whether the handler of clause cls runs the retry
retries(cls) == cls = "GeocoderTimedOut"

\* the except clause of the inner try
inner_clause == "Exception"

get_coordinates(city, country, svc) ==
    LET t == try_block(city, country, svc)
        matching == {k \in 1..Len(outer_clauses) : IsInstance(t.raised, outer_clauses[k])}
    IN IF t.raised = "none" THEN t
       ELSE IF matching = {} THEN t
       ELSE LET k == CHOOSE k \in matching : \A j \in matching : k <= j
            IN IF retries(outer_clauses[k])
               THEN LET r == retry_block(city, country, svc, t.queries)
                    IN IF r.raised # "none" /\ IsInstance(r.raised, inner_clause)
                       THEN Return(None, None, r.queries)
                       ELSE r
               ELSE Return(None, None, t.queries)

---------------------------------------------------------------------------
(* The document store: collection trineflex.rescoop *)

\* collection.distinct("Organization Name")
distinct(docs) == {docs[k]["Organization Name"] : k \in 1..Len(docs)}

\* collection.find_one({"Organization Name": org_name}): the position of the first
\* document of that name, 0 for None
find_one(docs, org_name) ==
    LET hits == {k \in 1..Len(docs) : docs[k]["Organization Name"] = org_name}
    IN IF hits = {} THEN 0 ELSE CHOOSE k \in hits : \A j \in hits : k <= j

\* {"$set": record} on a document: the record's fields overwrite, the others stay
Set(doc, record) ==
    [f \in DOMAIN doc \cup DOMAIN record |-> IF f \in DOMAIN record THEN record[f] ELSE doc[f]]

\* an update that writes nothing to a document that exists ($setOnInsert for $set)
update_one_set_on_insert(docs, id, record) == docs

\* collection.update_one({"_id": id}, {"$set": record})
update_one(docs, id, record) ==
    [k \in 1..Len(docs) |-> IF docs[k]["_id"] = id THEN Set(docs[k], record) ELSE docs[k]]

\* collection.insert_one(record): the record gets the next _id and is appended
insert_one(docs, id, record) == Append(docs, Set([f \in {"_id"} |-> id], record))

\* one turn of save_to_mongo's loop that inserts without looking the name up
save_one_always_insert(st, record) ==
    [docs |-> insert_one(st.docs, st.next_id, record),
     next_id |-> st.next_id + 1,
     branches |-> Append(st.branches, "inserted")]

\* one turn of save_to_mongo's loop: update the document of that name, or insert
save_one(st, record) ==
    LET k == find_one(st.docs, record["Organization Name"])
    IN IF k # 0
       THEN [docs |-> update_one(st.docs, st.docs[k]["_id"], record),
             next_id |-> st.next_id,
             branches |-> Append(st.branches, "updated")]
       ELSE [docs |-> insert_one(st.docs, st.next_id, record),
             next_id |-> st.next_id + 1,
             branches |-> Append(st.branches, "inserted")]

\* save_to_mongo(data) on the collection st: the loop over the records, in order
RECURSIVE save_loop(_, _)
save_loop(st, recs) ==
    IF recs = <<>> THEN st ELSE save_loop(save_one(st, Head(recs)), Tail(recs))

save_to_mongo(docs, id, recs) ==
    save_loop([docs |-> docs, next_id |-> id, branches |-> <<>>], recs)

---------------------------------------------------------------------------
(* The directory site and scrape_page *)

\* bounds of the model: the pages of the site, and the cards the site shows to
\* scrape_page over one run
NumPages == 2
MaxCards == 3

\* str.strip(): leading and trailing blanks removed
RECURSIVE strip(_)
strip(s) ==
    IF s = <<>> THEN s
    ELSE IF Head(s) = " " THEN strip(Tail(s))
    ELSE IF s[Len(s)] = " " THEN strip(SubSeq(s, 1, Len(s) - 1))
    ELSE s

\* ", ".join(texts)
RECURSIVE join(_)
join(texts) ==
    IF texts = <<>> THEN ""
    ELSE IF Len(texts) = 1 THEN texts[1]
    ELSE texts[1] \o ", " \o join(Tail(texts))

\* the cards a page can show: h2 and h4 are the texts of '.article-content h2' and
\* 'footer h4' (NoneStr: no such element), tags the texts of '.term-list li a',
\* external the href of '.buttons .button.external' (None: no such element)
Cards ==
    {[h2 |-> <<" ", "A">>, h4 |-> <<"L", ",", " ", "W", ",", " ", "B">>,
      tags |-> <<>>, external |-> None],
     [h2 |-> <<"A">>, h4 |-> <<"L">>,
      tags |-> <<"solar", "wind">>, external |-> "https://a.example"],
     [h2 |-> <<"B">>, h4 |-> <<",", " ", "B">>,
      tags |-> <<"solar">>, external |-> None],
     [h2 |-> NoneStr, h4 |-> <<"L", ",", " ", "B">>,
      tags |-> <<>>, external |-> None]}

\* the card lists of a page, when the site has shown n cards so far
PageContents(n) == UNION {[1..k -> Cards] : k \in 0..(MaxCards - n)}

\* what requests.get(url) of page p gives: a RequestException, a non-200 status, or
\* the page; the site has NumPages pages, so only a page before the last links on
Responses(p, n) ==
    {[status |-> st, cards |-> <<>>, next |-> FALSE] : st \in {"RequestException", "404"}}
    \cup [status : {"200"}, cards : PageContents(n),
          next : IF p < NumPages THEN BOOLEAN ELSE {FALSE}]

\* the dict scrape_page appends for a card
Record(org_name, card, now) ==
    ("Organization Name" :> org_name) @@ ("Location" :> card.h4)
    @@ ("Active In" :> IF card.tags # <<>> THEN join(card.tags) ELSE "N/A")
    @@ ("Website" :> IF card.external # None THEN card.external ELSE "N/A")
    @@ ("Scraped At" :> now)

\* what scrape_page gives back: a list, None, or an exception it lets through;
\* skipped tells that a card was left out for its known name
Page(recs, skipped) == [raised |-> "none", is_none |-> FALSE, records |-> recs, skipped |-> skipped]
NonePage == [raised |-> "none", is_none |-> TRUE, records |-> <<>>, skipped |-> FALSE]
Raised(exc) == [raised |-> exc, is_none |-> FALSE, records |-> <<>>, skipped |-> FALSE]

\* the loop over the articles without the test on existing_orgs
RECURSIVE articles_loop_no_filter(_, _, _, _, _)
articles_loop_no_filter(cards, orgs, now, acc, skipped) ==
    IF cards = <<>> THEN Page(acc, skipped)
    ELSE LET card == Head(cards)
         IN IF card.h2 = NoneStr \/ card.h4 = NoneStr THEN Raised("AttributeError")
            ELSE articles_loop_no_filter(Tail(cards), orgs, now,
                                         Append(acc, Record(strip(card.h2), card, now)), skipped)

\* the loop over the articles, a missing h2 or h4 raising AttributeError (None.text)
RECURSIVE articles_loop(_, _, _, _, _)
articles_loop(cards, orgs, now, acc, skipped) ==
    IF cards = <<>> THEN Page(acc, skipped)
    ELSE LET card == Head(cards)
         IN IF card.h2 = NoneStr THEN Raised("AttributeError")
            ELSE IF strip(card.h2) \in orgs
                 THEN articles_loop(Tail(cards), orgs, now, acc, TRUE)
            ELSE IF card.h4 = NoneStr THEN Raised("AttributeError")
            ELSE articles_loop(Tail(cards), orgs, now,
                               Append(acc, Record(strip(card.h2), card, now)), skipped)

\* scrape_page(url, existing_orgs), resp being what requests.get(url) gives
scrape_page(resp, orgs, now) ==
    IF resp.status = "RequestException" THEN NonePage
    ELSE IF resp.status # "200" THEN NonePage
    ELSE IF resp.cards = <<>> THEN NonePage
    ELSE articles_loop(resp.cards, orgs, now, <<>>, FALSE)

\* bool(page_data)
HasRecords(page) == ~page.is_none /\ page.records # <<>>

---------------------------------------------------------------------------
(* The state before a run *)

\* a document an earlier run stored under org_name
StoredDoc(id, org_name) ==
    ("_id" :> id) @@ ("Organization Name" :> org_name) @@ ("Active In" :> "N/A")
    @@ ("Website" :> "N/A") @@ ("Scraped At" :> 0) @@ ("City" :> <<"L">>)
    @@ ("Country" :> <<"B">>) @@ ("Latitude" :> "50.63") @@ ("Longitude" :> "5.57")

\* the collections a run can find: at most one document per name
InitialStores ==
    {<<>>, <<StoredDoc(1, <<"A">>)>>, <<StoredDoc(2, <<"B">>)>>,
     <<StoredDoc(1, <<"A">>), StoredDoc(2, <<"B">>)>>}

NoCall == [called |-> FALSE]

InitRun(m, first, stores) ==
    /\ mode = m
    /\ pc = first
    /\ store \in stores
    /\ next_id = 3
    /\ existing_orgs = {}
    /\ page_number = 1
    /\ max_pages = 0
    /\ i = 1
    /\ page_data = <<>>
    /\ pending = {}
    /\ data = <<>>
    /\ rows = <<>>
    /\ abort = "none"
    /\ geocoded = <<>>
    /\ written = <<>>
    /\ fetches = 0
    /\ served = 0
    /\ scraped = <<>>
    /\ saw_known = FALSE
    /\ saw_empty = {}
    /\ geo = NoCall
    /\ calls = <<>>
    /\ parsed = NoCall
    /\ writers = <<>>

\* an exception leaves main: the run ends there
Abort(exc) == pc' = "aborted" /\ abort' = exc

\* the history entries of the records recs, considered against the names orgs
Considered(recs, orgs) ==
    [k \in 1..Len(recs) |-> [name |-> recs[k]["Organization Name"],
                             known |-> recs[k]["Organization Name"] \in orgs]]

\* the record with its Location replaced by City and Country and the coordinates set
Enriched(record, city, country, lat, lon) ==
    [f \in (DOMAIN record \ {"Location"}) \cup {"City", "Country", "Latitude", "Longitude"} |->
        CASE f = "City" -> city
          [] f = "Country" -> country
          [] f = "Latitude" -> lat
          [] f = "Longitude" -> lon
          [] OTHER -> record[f]]

\* the (city, country) pairs the cards' locations split into
CardLocations == {split_location(card.h4) : card \in {c \in Cards : c.h4 # NoneStr}}

\* what a get_coordinates call can give, over everything the service can do
OutcomesOf ==
    [loc \in CardLocations |->
        {[raised |-> out.raised, lat |-> out.lat, lon |-> out.lon] :
            out \in {get_coordinates(loc[1], loc[2], svc) : svc \in Services}}]

Outcomes(city, country) == OutcomesOf[<<city, country>>]

\* the last call's arguments and outcome
GeoCall(city, country, svc) ==
    [called |-> TRUE, city |-> city, country |-> country, svc |-> svc,
     out |-> get_coordinates(city, country, svc)]

---------------------------------------------------------------------------
(* The incremental driver: main of scraper-trineflex-REScoop.py *)

\* one turn of find_max_pages' loop; its requests.get is outside any try
find_max_pages ==
    /\ mode = "incremental" /\ pc = "find_max_pages"
    /\ \E resp \in Responses(page_number, MaxCards) :
          /\ fetches' = fetches + 1
          /\ IF resp.status = "RequestException"
             THEN Abort("RequestException") /\ UNCHANGED <<page_number, max_pages>>
             ELSE IF ~resp.next
             THEN /\ max_pages' = page_number
                  /\ pc' = "distinct"
                  /\ UNCHANGED <<page_number, abort>>
             ELSE /\ page_number' = page_number + 1
                  /\ UNCHANGED <<pc, max_pages, abort>>
    /\ UNCHANGED <<mode, parsed, writers, served, store, next_id, existing_orgs, i, page_data, pending, data, rows,
                   geocoded, written, scraped, saw_known, saw_empty, geo, calls>>

\* existing_orgs = set(collection.distinct("Organization Name"))
load_existing_inc ==
    /\ mode = "incremental" /\ pc = "distinct"
    /\ existing_orgs' = distinct(store)
    /\ i' = 1
    /\ pc' = "scrape_page"
    /\ UNCHANGED <<mode, parsed, writers, served, store, next_id, page_number, max_pages, page_data, pending, data,
                   rows, abort, geocoded, written, fetches, scraped, saw_known, saw_empty,
                   geo, calls>>

\* where the loop over the pages goes after page p
AfterPage(p) == IF p + 1 <= max_pages THEN "scrape_page" ELSE "done"

\* a loop over the pages that ends at the first page without records
page_loop_stops_at_none(page) ==
    IF page.raised # "none" THEN Abort(page.raised) /\ UNCHANGED <<i, page_data>>
    ELSE IF HasRecords(page)
    THEN page_data' = page.records /\ pc' = "record" /\ UNCHANGED <<i, abort>>
    ELSE page_data' = <<>> /\ i' = i + 1 /\ pc' = "done" /\ UNCHANGED abort

page_loop_fetches_ahead(page) ==
    IF page.raised # "none" THEN Abort(page.raised) /\ UNCHANGED <<i, page_data>>
    ELSE IF HasRecords(page)
    THEN page_data' = page.records /\ i' = i + 1 /\ pc' = AfterPage(i) /\ UNCHANGED abort
    ELSE page_data' = <<>> /\ i' = i + 1 /\ pc' = AfterPage(i) /\ UNCHANGED abort

\* for i in range(1, max_pages + 1): what main does with scrape_page's result
page_loop(page) ==
    IF page.raised # "none" THEN Abort(page.raised) /\ UNCHANGED <<i, page_data>>
    ELSE IF HasRecords(page)
    THEN page_data' = page.records /\ pc' = "record" /\ UNCHANGED <<i, abort>>
    ELSE page_data' = <<>> /\ i' = i + 1 /\ pc' = AfterPage(i) /\ UNCHANGED abort

\* page_data = scrape_page(base_link + "/p%d" % i, existing_orgs)
scrape_inc ==
    /\ mode = "incremental" /\ pc = "scrape_page"
    /\ \E resp \in Responses(i, served) :
          LET page == scrape_page(resp, existing_orgs, fetches + 1)
          IN /\ fetches' = fetches + 1
             /\ served' = served + Len(resp.cards)
             /\ scraped' = Append(scraped, i)
             /\ saw_known' = (saw_known \/ page.skipped)
             /\ saw_empty' = IF resp.status = "200" /\ resp.cards = <<>>
                             THEN saw_empty \cup {i} ELSE saw_empty
             /\ page_loop(page)
    /\ UNCHANGED <<mode, parsed, writers, store, next_id, existing_orgs, page_number, max_pages, pending,
                   data, rows, geocoded, written, geo, calls>>

\* the known-name branch: 'continue', so the loop goes on with the next record
record_known ==
    /\ page_data' = Tail(page_data)
    /\ saw_known' = TRUE
    /\ i' = IF Len(page_data) = 1 THEN i + 1 ELSE i
    /\ pc' = IF Len(page_data) = 1 THEN AfterPage(i) ELSE "record"
    /\ UNCHANGED <<store, next_id, existing_orgs, abort, geocoded, written>>

record_new_no_add ==
    LET record == Head(page_data)
        org_name == record["Organization Name"]
        loc == split_location(record["Location"])
    IN \E out \in Outcomes(loc[1], loc[2]) :
          LET saved == save_to_mongo(store, next_id,
                           <<Enriched(record, loc[1], loc[2], out.lat, out.lon)>>)
          IN /\ geocoded' = geocoded \o Considered(<<record>>, existing_orgs)
             /\ IF out.raised # "none"
                THEN /\ Abort(out.raised)
                     /\ UNCHANGED <<store, next_id, existing_orgs, i, page_data, written>>
                ELSE /\ store' = saved.docs
                     /\ next_id' = saved.next_id
                     /\ written' = written \o Considered(<<record>>, existing_orgs)
                     /\ UNCHANGED existing_orgs
                     /\ page_data' = Tail(page_data)
                     /\ i' = IF Len(page_data) = 1 THEN i + 1 ELSE i
                     /\ pc' = IF Len(page_data) = 1 THEN AfterPage(i) ELSE "record"
                     /\ UNCHANGED abort
             /\ UNCHANGED saw_known

\* the rest of the loop body: split_location, get_coordinates, save_to_mongo([record]),
\* existing_orgs.add(org_name)
record_new ==
    LET record == Head(page_data)
        org_name == record["Organization Name"]
        loc == split_location(record["Location"])
    IN \E out \in Outcomes(loc[1], loc[2]) :
          LET saved == save_to_mongo(store, next_id,
                           <<Enriched(record, loc[1], loc[2], out.lat, out.lon)>>)
          IN /\ geocoded' = geocoded \o Considered(<<record>>, existing_orgs)
             /\ IF out.raised # "none"
                THEN /\ Abort(out.raised)
                     /\ UNCHANGED <<store, next_id, existing_orgs, i, page_data, written>>
                ELSE /\ store' = saved.docs
                     /\ next_id' = saved.next_id
                     /\ written' = written \o Considered(<<record>>, existing_orgs)
                     /\ existing_orgs' = existing_orgs \cup {org_name}
                     /\ page_data' = Tail(page_data)
                     /\ i' = IF Len(page_data) = 1 THEN i + 1 ELSE i
                     /\ pc' = IF Len(page_data) = 1 THEN AfterPage(i) ELSE "record"
                     /\ UNCHANGED abort
             /\ UNCHANGED saw_known

\* for record in page_data: one turn
record_inc ==
    /\ mode = "incremental" /\ pc = "record"
    /\ IF Head(page_data)["Organization Name"] \in existing_orgs
       THEN record_known
       ELSE record_new
    /\ UNCHANGED <<mode, parsed, writers, served, page_number, max_pages, pending, data, rows, fetches, scraped,
                   saw_empty, geo, calls>>

---------------------------------------------------------------------------
(* The bulk driver: main of scraper-rescoop.py *)

\* existing_orgs = set(collection.distinct(...)), then one future per page submitted
load_existing_bulk ==
    /\ mode = "bulk" /\ pc = "distinct"
    /\ existing_orgs' = distinct(store)
    /\ pending' = 1..NumPages
    /\ pc' = "as_completed"
    /\ UNCHANGED <<mode, parsed, writers, served, store, next_id, page_number, max_pages, i, page_data, data, rows,
                   abort, geocoded, written, fetches, scraped, saw_known, saw_empty, geo,
                   calls>>

future_completed_no_wait(p) ==
    /\ mode = "bulk" /\ pc = "as_completed"
    /\ p \in pending
    /\ \E resp \in Responses(p, served) :
          LET page == scrape_page(resp, existing_orgs, fetches + 1)
          IN /\ fetches' = fetches + 1
             /\ served' = served + Len(resp.cards)
             /\ scraped' = Append(scraped, p)
             /\ saw_known' = (saw_known \/ page.skipped)
             /\ saw_empty' = IF resp.status = "200" /\ resp.cards = <<>>
                             THEN saw_empty \cup {p} ELSE saw_empty
             /\ pending' = pending \ {p}
             /\ IF page.raised # "none"
                THEN Abort(page.raised) /\ UNCHANGED data
                ELSE /\ data' = IF HasRecords(page) THEN data \o page.records ELSE data
                     /\ pc' = "DataFrame"
                     /\ UNCHANGED abort
    /\ UNCHANGED <<mode, parsed, writers, store, next_id, existing_orgs, page_number, max_pages, i,
                   page_data, rows, geocoded, written, geo, calls>>

\* for future in as_completed(...): the future of page p completes, in any order;
\* future.result() re-raises what scrape_page let through
future_completed(p) ==
    /\ mode = "bulk" /\ pc = "as_completed"
    /\ p \in pending
    /\ \E resp \in Responses(p, served) :
          LET page == scrape_page(resp, existing_orgs, fetches + 1)
          IN /\ fetches' = fetches + 1
             /\ served' = served + Len(resp.cards)
             /\ scraped' = Append(scraped, p)
             /\ saw_known' = (saw_known \/ page.skipped)
             /\ saw_empty' = IF resp.status = "200" /\ resp.cards = <<>>
                             THEN saw_empty \cup {p} ELSE saw_empty
             /\ pending' = pending \ {p}
             /\ IF page.raised # "none"
                THEN Abort(page.raised) /\ UNCHANGED data
                ELSE /\ data' = IF HasRecords(page) THEN data \o page.records ELSE data
                     /\ pc' = IF pending = {p} THEN "DataFrame" ELSE "as_completed"
                     /\ UNCHANGED abort
    /\ UNCHANGED <<mode, parsed, writers, store, next_id, existing_orgs, page_number, max_pages, i,
                   page_data, rows, geocoded, written, geo, calls>>

\* the row of df for a record: Location split into City and Country, then dropped
Row(record) ==
    LET loc == split_location(record["Location"])
    IN [f \in (DOMAIN record \ {"Location"}) \cup {"City", "Country"} |->
           CASE f = "City" -> loc[1]
             [] f = "Country" -> loc[2]
             [] OTHER -> record[f]]

\* df = pd.DataFrame(data); df['Location'] raises KeyError on a frame without columns
data_frame ==
    /\ mode = "bulk" /\ pc = "DataFrame"
    /\ IF data = <<>>
       THEN Abort("KeyError") /\ UNCHANGED <<rows, i>>
       ELSE /\ rows' = [k \in 1..Len(data) |-> Row(data[k])]
            /\ i' = 1
            /\ pc' = "get_coordinates"
            /\ UNCHANGED abort
    /\ UNCHANGED <<mode, parsed, writers, served, store, next_id, existing_orgs, page_number, max_pages, page_data,
                   pending, data, geocoded, written, fetches, scraped, saw_known,
                   saw_empty, geo, calls>>

\* df.apply(lambda row: get_coordinates(row['City'], row['Country']), axis=1): row i
enrich_row ==
    /\ mode = "bulk" /\ pc = "get_coordinates"
    /\ \E out \in Outcomes(rows[i]["City"], rows[i]["Country"]) :
             /\ geocoded' = geocoded \o Considered(<<rows[i]>>, existing_orgs)
             /\ IF out.raised # "none"
                THEN Abort(out.raised) /\ UNCHANGED <<rows, i>>
                ELSE /\ rows' = [rows EXCEPT ![i] =
                                    Set(@, ("Latitude" :> out.lat) @@ ("Longitude" :> out.lon))]
                     /\ i' = i + 1
                     /\ pc' = IF i = Len(rows) THEN "save_to_mongo" ELSE "get_coordinates"
                     /\ UNCHANGED abort
    /\ UNCHANGED <<mode, parsed, writers, served, store, next_id, existing_orgs, page_number, max_pages, page_data,
                   pending, data, written, fetches, scraped, saw_known, saw_empty, geo,
                   calls>>

\* save_to_mongo(df.to_dict(orient='records'))
save_batch ==
    /\ mode = "bulk" /\ pc = "save_to_mongo"
    /\ LET saved == save_to_mongo(store, next_id, rows)
       IN /\ store' = saved.docs
          /\ next_id' = saved.next_id
    /\ written' = written \o Considered(rows, existing_orgs)
    /\ pc' = "done"
    /\ UNCHANGED <<mode, parsed, writers, served, existing_orgs, page_number, max_pages, i, page_data, pending,
                   data, rows, abort, geocoded, fetches, scraped, saw_known, saw_empty,
                   geo, calls>>

---------------------------------------------------------------------------
(* The functions called on their own *)

\* the arguments get_coordinates is called with: None, '' or a name
Cities == {NoneStr, <<>>, <<"L">>}
Countries == {NoneStr, <<>>, <<"B">>}

\* latitude, longitude = get_coordinates(city, country)
get_coordinates_call ==
    /\ mode = "get_coordinates" /\ pc = "call"
    /\ \E city \in Cities, country \in Countries, svc \in Services :
          geo' = GeoCall(city, country, svc)
    /\ pc' = "done"
    /\ UNCHANGED <<mode, parsed, writers, store, next_id, existing_orgs, page_number, max_pages, i,
                   page_data, pending, data, rows, abort, geocoded, written, fetches,
                   served, scraped, saw_known, saw_empty, calls>>

\* bound of the model: the save_to_mongo calls of one harness run
MaxCalls == 3

\* the records a run hands to save_to_mongo: a card's record, enriched
Records ==
    UNION {{Enriched(Record(strip(card.h2), card, 1), split_location(card.h4)[1],
                     split_location(card.h4)[2], out.lat, out.lon) :
               out \in Outcomes(split_location(card.h4)[1], split_location(card.h4)[2])} :
           card \in {c \in Cards : c.h2 # NoneStr /\ c.h4 # NoneStr}}

\* save_to_mongo([record])
save_to_mongo_call ==
    /\ mode = "save_to_mongo" /\ pc = "call"
    /\ Len(calls) < MaxCalls
    /\ \E record \in Records :
          LET saved == save_to_mongo(store, next_id, <<record>>)
          IN /\ store' = saved.docs
             /\ next_id' = saved.next_id
             /\ calls' = Append(calls, [record |-> record, branch |-> saved.branches[1],
                                        before |-> store, after |-> saved.docs])
    /\ UNCHANGED <<mode, parsed, writers, pc, existing_orgs, page_number, max_pages, i, page_data, pending,
                   data, rows, abort, geocoded, written, fetches, served, scraped,
                   saw_known, saw_empty, geo>>

---------------------------------------------------------------------------
(* The specification: a run of either driver, or calls of one function *)

\* ---- split_location on its own: one call with a location string of at most
\* MaxLen characters
MaxLen == 5
Alphabet == {"a", "b", ",", " "}
Locations == UNION {[1..n -> Alphabet] : n \in 0..MaxLen}

split_location_call ==
    /\ mode = "split_location" /\ pc = "call"
    /\ \E location \in Locations :
          parsed' = [called |-> TRUE, location |-> location,
                     out |-> split_location(location)]
    /\ pc' = "done"
    /\ UNCHANGED <<mode, writers, store, next_id, existing_orgs, page_number, max_pages, i,
                   page_data, pending, data, rows, abort, geocoded, written, fetches,
                   served, scraped, saw_known, saw_empty, geo, calls>>

Init ==
    \/ InitRun("incremental", "find_max_pages", InitialStores)
    \/ InitRun("bulk", "distinct", InitialStores)
    \/ InitRun("get_coordinates", "call", {<<>>})
    \/ InitRun("save_to_mongo", "call", InitialStores)
    \/ InitRun("split_location", "call", {<<>>})

Next ==
    \/ find_max_pages
    \/ load_existing_inc
    \/ scrape_inc
    \/ record_inc
    \/ load_existing_bulk
    \/ \E p \in 1..NumPages : future_completed(p)
    \/ data_frame
    \/ enrich_row
    \/ save_batch
    \/ get_coordinates_call
    \/ save_to_mongo_call
    \/ split_location_call

Spec == Init /\ [][Next]_vars

---------------------------------------------------------------------------
(* Two runs inside save_to_mongo at once, on the same collection: each run's
   find_one, update_one and insert_one are separate requests to the server, and
   the requests of the two runs arrive in any order *)

Runs == {1, 2}

\* a run entering the loop body with its record
Entering(record) == [pc |-> "find_one", record |-> record, existing_record |-> 0]

\* both runs call save_to_mongo([record])
save_to_mongo_begin ==
    /\ mode = "concurrent" /\ pc = "call"
    /\ \E r1, r2 \in Records : writers' = <<Entering(r1), Entering(r2)>>
    /\ pc' = "running"
    /\ UNCHANGED <<mode, parsed, store, next_id, existing_orgs, page_number, max_pages, i,
                   page_data, pending, data, rows, abort, geocoded, written, fetches,
                   served, scraped, saw_known, saw_empty, geo, calls>>

\* existing_record = collection.find_one({"Organization Name": org_name})
w_find_one(w) ==
    /\ mode = "concurrent" /\ pc = "running"
    /\ writers[w].pc = "find_one"
    /\ LET k == find_one(store, writers[w].record["Organization Name"])
       IN writers' = [writers EXCEPT
                         ![w].existing_record = IF k # 0 THEN store[k]["_id"] ELSE 0,
                         ![w].pc = IF k # 0 THEN "update_one" ELSE "insert_one"]
    /\ UNCHANGED <<mode, parsed, pc, store, next_id, existing_orgs, page_number, max_pages,
                   i, page_data, pending, data, rows, abort, geocoded, written, fetches,
                   served, scraped, saw_known, saw_empty, geo, calls>>

\* collection.update_one({"_id": existing_record["_id"]}, {"$set": record})
w_update_one(w) ==
    /\ mode = "concurrent" /\ pc = "running"
    /\ writers[w].pc = "update_one"
    /\ store' = update_one(store, writers[w].existing_record, writers[w].record)
    /\ writers' = [writers EXCEPT ![w].pc = "done"]
    /\ UNCHANGED <<mode, parsed, pc, next_id, existing_orgs, page_number, max_pages,
                   i, page_data, pending, data, rows, abort, geocoded, written, fetches,
                   served, scraped, saw_known, saw_empty, geo, calls>>

\* collection.insert_one(record)
w_insert_one(w) ==
    /\ mode = "concurrent" /\ pc = "running"
    /\ writers[w].pc = "insert_one"
    /\ store' = insert_one(store, next_id, writers[w].record)
    /\ next_id' = next_id + 1
    /\ writers' = [writers EXCEPT ![w].pc = "done"]
    /\ UNCHANGED <<mode, parsed, pc, existing_orgs, page_number, max_pages,
                   i, page_data, pending, data, rows, abort, geocoded, written, fetches,
                   served, scraped, saw_known, saw_empty, geo, calls>>

InitConcurrent == InitRun("concurrent", "call", InitialStores)

NextConcurrent ==
    \/ save_to_mongo_begin
    \/ \E w \in Runs : w_find_one(w)
    \/ \E w \in Runs : w_update_one(w)
    \/ \E w \in Runs : w_insert_one(w)

SpecConcurrent == InitConcurrent /\ [][NextConcurrent]_vars

---------------------------------------------------------------------------
(* Claims about get_coordinates *)

\* the coordinates a call can give back
Coordinates == {None, CityHit.latitude, CityHit.longitude,
                CountryHit.latitude, CountryHit.longitude}

\* C1: get_coordinates never lets a failure through: whatever city and country are,
\* and however any of its queries fails (the retry included), the call returns a
\* (lat, lon) pair, and no run is ended by a geocoding failure.
C1_NeverPropagates ==
    /\ geo.called => /\ geo.out.raised = "none"
                     /\ geo.out.lat \in Coordinates
                     /\ geo.out.lon \in Coordinates
    /\ abort \notin GeoFailures

\* a call with city and country whose first query timed out and whose retry failed
\* with an error of no named kind
C1_Witness ==
    /\ geo.called
    /\ Truthy(geo.city) /\ Truthy(geo.country)
    /\ geo.svc.fail[1] = "GeocoderTimedOut"
    /\ geo.svc.fail[2] = "Exception"
    /\ Len(geo.out.queries) = 2
    /\ geo.out.queries[2].phase = "retry"

\* C2: a retry query is issued only after a timeout, and at most once; after any
\* other failure no further query is issued; and a retry that fails, times out or
\* finds nothing makes the call return (None, None).
C2_RetryPolicy ==
    geo.called =>
        LET qs == geo.out.queries
            fail == geo.svc.fail
        IN /\ Cardinality({k \in 1..Len(qs) : qs[k].phase = "retry"}) <= 1
           /\ \A k \in 1..Len(qs) :
                 /\ qs[k].phase = "retry" =>
                       k > 1 /\ fail[k - 1] = "GeocoderTimedOut" /\ k = Len(qs)
                 /\ fail[k] \notin {"ok", "GeocoderTimedOut"} => k = Len(qs)
                 /\ fail[k] = "GeocoderTimedOut" /\ k < Len(qs) =>
                       qs[k + 1].phase = "retry"
                 /\ (qs[k].phase = "retry"
                        /\ (fail[k] # "ok" \/ ~geocode(geo.svc, k, qs[k].q).location.found)) =>
                       geo.out.lat = None /\ geo.out.lon = None

\* a call whose fallback query timed out and whose retry timed out too
C2_Witness ==
    /\ geo.called
    /\ Len(geo.out.queries) = 3
    /\ geo.svc.fail[2] = "GeocoderTimedOut"
    /\ geo.svc.fail[3] = "GeocoderTimedOut"
    /\ geo.out.queries[3].phase = "retry"
    /\ geo.out.lat = None /\ geo.out.lon = None

\* the case of C3: city and country given, nothing known at city level, the country known
CityUnknownCountryKnown ==
    /\ geo.called
    /\ Truthy(geo.city) /\ Truthy(geo.country)
    /\ geo.svc.city_level = NoResult
    /\ geo.svc.country_level = CountryHit

\* C3 as claimed: with city and country given, when the city+country query finds
\* nothing and the country-only query finds the country, the call returns the
\* country's coordinates on every path that ends with an answer of the service,
\* the path after a timeout included.
C3_FallbackOnEveryPath ==
    (CityUnknownCountryKnown /\ geo.svc.fail[Len(geo.out.queries)] = "ok") =>
        /\ geo.out.lat = CountryHit.latitude
        /\ geo.out.lon = CountryHit.longitude

\* C3, amended: the same, on the path where no query fails; after a timeout the one
\* retry asks for city+country only and the call returns (None, None) when that
\* finds nothing.
C3_Fallback ==
    CityUnknownCountryKnown =>
        LET qs == geo.out.queries
            fail == geo.svc.fail
        IN /\ (\A k \in 1..Len(qs) : fail[k] = "ok") =>
                 /\ Len(qs) = 2
                 /\ qs[2].q = geo.country
                 /\ geo.out.lat = CountryHit.latitude
                 /\ geo.out.lon = CountryHit.longitude
           /\ (\E k \in 1..Len(qs) : fail[k] # "ok") =>
                 /\ \A k \in 1..Len(qs) :
                       qs[k].phase = "retry" => qs[k].q = FormatQuery(geo.city, geo.country)
                 /\ geo.out.lat = None /\ geo.out.lon = None

\* a call that fell back to the country and returned its coordinates
C3_Witness ==
    /\ CityUnknownCountryKnown
    /\ Len(geo.out.queries) = 2
    /\ geo.out.queries[2].phase = "fallback"
    /\ geo.svc.fail[1] = "ok" /\ geo.svc.fail[2] = "ok"
    /\ geo.out.lat = CountryHit.latitude

---------------------------------------------------------------------------
(* Claims about the runs *)

\* C4: in a bulk run and in an incremental run, no record whose name is in
\* existing_orgs when it is considered is passed to split_location/get_coordinates
\* or to save_to_mongo.
C4_Dedup ==
    /\ \A k \in 1..Len(geocoded) : ~geocoded[k].known
    /\ \A k \in 1..Len(written) : ~written[k].known

\* a run that met a known name and wrote another record
C4_Witness ==
    /\ mode \in {"bulk", "incremental"}
    /\ saw_known
    /\ written # <<>>
    /\ pc = "done"

\* C5 as claimed: once an incremental run has met a record whose name is known, it
\* stops: nothing more is geocoded or written and no further page is fetched.
C5_StopsOnKnownName ==
    [][(mode = "incremental" /\ saw_known) =>
          (geocoded' = geocoded /\ written' = written /\ fetches' = fetches)]_vars

\* C6 as claimed: in an incremental run, after a page on which scrape_page found
\* zero cards (and returned None), no further page is scraped and nothing more is
\* written.
C6_EmptyPageTerminates ==
    [][(mode = "incremental" /\ saw_empty # {}) =>
          (scraped' = scraped /\ written' = written)]_vars

\* C6, amended: in an incremental run a page for which scrape_page returns None
\* gives no records and does not end the run; main calls scrape_page on the pages
\* 1..max_pages in order, max_pages being the page on which find_max_pages found no
\* next-page link, and a run that completes has scraped every one of them.
C6_RunCoversMaxPages ==
    mode = "incremental" =>
        /\ \A k \in 1..Len(scraped) : scraped[k] = k
        /\ Len(scraped) <= max_pages
        /\ pc = "done" => Len(scraped) = max_pages
        /\ pc = "record" => Len(scraped) = i /\ i \notin saw_empty

\* a completed run whose first page had zero cards and whose second page was
\* scraped and gave a record that was written
C6_Witness ==
    /\ mode = "incremental" /\ pc = "done"
    /\ 1 \in saw_empty
    /\ scraped = <<1, 2>>
    /\ written # <<>>

\* C7 as claimed: a failed page fetch never ends a run, in either mode and at any
\* point, page discovery included.
C7_TransportNeverFatal == abort # "RequestException"

\* C8 as claimed: a card without its name heading never ends a run.
C8_MalformedCardNeverFatal == abort # "AttributeError"

---------------------------------------------------------------------------
(* Claims about the store *)

\* C9: from a collection with at most one document per name, after any run and
\* after any sequence of save_to_mongo calls the collection holds at most one
\* document per organization name, also when a name is written more than once.
C9_UniqueNames ==
    \A j, k \in 1..Len(store) :
        store[j]["Organization Name"] = store[k]["Organization Name"] => j = k

\* a completed bulk run that wrote the same new name twice
C9_Witness ==
    /\ mode = "bulk" /\ pc = "done"
    /\ \E j, k \in 1..Len(written) :
          j < k /\ written[j].name = written[k].name /\ ~written[j].known

\* the documents of a collection stored under org_name
DocsOf(docs, org_name) == {k \in 1..Len(docs) : docs[k]["Organization Name"] = org_name}

\* C10: save_to_mongo called twice with the same record leaves exactly one document
\* of that name, whose fields equal the record; the second call changes nothing and
\* takes the update branch; and a call inserts iff the name was absent.
C10_IdempotentUpsert ==
    \A k \in 1..Len(calls) :
        LET c == calls[k]
            org_name == c.record["Organization Name"]
        IN /\ c.branch = "inserted" <=> DocsOf(c.before, org_name) = {}
           /\ (k > 1 /\ calls[k - 1].record = c.record) =>
                 /\ c.branch = "updated"
                 /\ c.after = calls[k - 1].after
                 /\ Cardinality(DocsOf(c.after, org_name)) = 1
                 /\ \A d \in DocsOf(c.after, org_name) :
                       /\ DOMAIN c.after[d] = DOMAIN c.record \cup {"_id"}
                       /\ \A f \in DOMAIN c.record : c.after[d][f] = c.record[f]

\* two calls in a row with the same record, the first of which inserted it
C10_Witness ==
    /\ Len(calls) >= 2
    /\ calls[1].record = calls[2].record
    /\ calls[1].branch = "inserted"
    /\ calls[2].branch = "updated"

\* C11: what get_coordinates asks the service follows from its arguments alone: with
\* no country it asks nothing and returns (None, None); with a country and no city
\* its first query is the country; with both its first query is "city, country".
C11_QueriesByArguments ==
    geo.called =>
        /\ ~Truthy(geo.country) =>
              /\ geo.out.queries = <<>>
              /\ geo.out.lat = None /\ geo.out.lon = None
        /\ (Truthy(geo.country) /\ ~Truthy(geo.city)) =>
              /\ geo.out.queries # <<>>
              /\ geo.out.queries[1].q = geo.country
        /\ (Truthy(geo.country) /\ Truthy(geo.city)) =>
              /\ geo.out.queries # <<>>
              /\ geo.out.queries[1].q = FormatQuery(geo.city, geo.country)

\* the rows of a run that have been through get_coordinates
EnrichedRows == {k \in 1..Len(rows) : "Latitude" \in DOMAIN rows[k]}

\* C12: Latitude and Longitude come in pairs: the result of every get_coordinates
\* call, every enriched row and every document of the collection that carries
\* coordinates has both of them None or neither.
C12_CoordinatesPaired ==
    /\ geo.called => (geo.out.lat = None <=> geo.out.lon = None)
    /\ \A k \in EnrichedRows :
          /\ "Longitude" \in DOMAIN rows[k]
          /\ rows[k]["Latitude"] = None <=> rows[k]["Longitude"] = None
    /\ \A k \in 1..Len(store) :
          "Latitude" \in DOMAIN store[k] =>
              /\ "Longitude" \in DOMAIN store[k]
              /\ store[k]["Latitude"] = None <=> store[k]["Longitude"] = None

\* a run that wrote one document with coordinates and one without
C12_Witness ==
    /\ mode \in {"incremental", "bulk"}
    /\ pc = "done"
    /\ \E j, k \in 1..Len(store) :
          /\ "Latitude" \in DOMAIN store[j] /\ "Latitude" \in DOMAIN store[k]
          /\ store[j]["Latitude"] # None /\ store[j]["Longitude"] # None
          /\ store[k]["Latitude"] = None /\ store[k]["Longitude"] = None

\* s has the separator ", " somewhere
HasSep(s) == \E k \in 1..(Len(s) - 1) : s[k] = Sep[1] /\ s[k + 1] = Sep[2]

\* C13: split_location gives (whole string, None) for a location without ", ";
\* otherwise it gives (first part, last part): the city is what precedes the first
\* ", ", the country is what follows the last ", ", and what lies between is dropped.
C13_FirstAndLast ==
    parsed.called =>
        LET s == parsed.location
            city == parsed.out[1]
            country == parsed.out[2]
        IN IF ~HasSep(s) THEN parsed.out = <<s, NoneStr>>
           ELSE /\ ~HasSep(city)
                /\ Len(s) >= Len(city) + 2
                /\ SubSeq(s, 1, Len(city) + 2) = city \o Sep
                /\ country # NoneStr
                /\ ~HasSep(country)
                /\ Len(s) >= Len(country) + 2
                /\ SubSeq(s, Len(s) - Len(country) - 1, Len(s)) = Sep \o country

\* a location of three parts whose middle part is not its last part
C13_Witness ==
    /\ parsed.called
    /\ parsed.location = <<",", " ", "a", ",", " ">>
    /\ parsed.out = <<<<>>, <<>>>>

\* no name occurs twice in a sequence of [name, known] entries
NamedOnce(entries) ==
    \A j, k \in 1..Len(entries) : entries[j].name = entries[k].name => j = k

\* C14: in a bulk run the batch pooled from all pages holds each organization name
\* at most once, so each name is geocoded at most once and written at most once.
C14_BatchNamesUnique ==
    mode = "bulk" =>
        /\ \A j, k \in 1..Len(data) :
              data[j]["Organization Name"] = data[k]["Organization Name"] => j = k
        /\ NamedOnce(geocoded)
        /\ NamedOnce(written)

\* C15: in an incremental run no name is geocoded twice and no name is written
\* twice: a name is in existing_orgs as soon as it has been written, so a later card
\* of that name, on the same page or a later one, takes the known branch.
C15_OncePerRun ==
    mode = "incremental" =>
        /\ NamedOnce(geocoded)
        /\ NamedOnce(written)
        /\ \A k \in 1..Len(written) :
              /\ ~written[k].known
              /\ written[k].name \in existing_orgs

\* a finished run over an empty collection that wrote a name and met it again
C15_Witness ==
    /\ mode = "incremental"
    /\ pc = "done"
    /\ written # <<>>
    /\ saw_known
    /\ \A k \in 1..Len(store) : store[k]["_id"] >= 3

\* the page a pooled record was scraped from: its 'Scraped At' is the rank of the
\* fetch that produced it
PageOf(k) == scraped[data[k]["Scraped At"]]

\* among the pooled records of the name of data[k], the one that comes last when
\* the pages are pooled in page order
LastInPageOrder(k) ==
    LET same == {j \in 1..Len(data) :
                    data[j]["Organization Name"] = data[k]["Organization Name"]}
    IN CHOOSE j \in same :
          \A l \in same : PageOf(l) < PageOf(j) \/ (PageOf(l) = PageOf(j) /\ l <= j)

\* C16: the outcome of a bulk run does not depend on the order in which the pages
\* complete: whatever that order was, what the collection holds for each scraped
\* name at the end is what the run pooling the same pages in page order leaves,
\* the fields of the last record of that name in page order (the time of scraping
\* and the coordinates, which the pages do not decide, left aside).
C16_OrderIndependent ==
    (mode = "bulk" /\ pc = "done") =>
        \A k \in 1..Len(data) :
            LET expected == Row(data[LastInPageOrder(k)])
            IN \A d \in DocsOf(store, data[k]["Organization Name"]) :
                  \A f \in DOMAIN expected \ {"Scraped At"} :
                      store[d][f] = expected[f]

\* the page an incremental run is about to fetch: page_number while find_max_pages
\* follows the 'next' links, i in the loop of main
FetchedPage == IF pc = "find_max_pages" THEN page_number ELSE i

\* C17: an incremental run fetches page k+1 only once page k has been fetched,
\* extracted and its new records written: at every fetch of a page, every page
\* before it has been through scrape_page and no record of it is left to process.
C17_StrictlySequential ==
    [][(mode = "incremental" /\ fetches' = fetches + 1) =>
          /\ page_data = <<>>
          /\ \A k \in 1..(FetchedPage - 1) : \E j \in 1..Len(scraped) : scraped[j] = k]_vars

\* C17, amended: find_max_pages first fetches the pages 1, 2, ... in order, before
\* anything is extracted or written; after that, main scrapes page k+1 only once
\* pages 1..k have been scraped in order and every record of page k has been
\* processed, each one geocoded having been written.
C17_SequentialAfterDiscovery ==
    [][(mode = "incremental" /\ fetches' = fetches + 1) =>
          IF pc = "find_max_pages"
          THEN /\ fetches = page_number - 1
               /\ scraped = <<>> /\ geocoded = <<>> /\ written = <<>>
          ELSE /\ pc = "scrape_page"
               /\ i <= max_pages
               /\ scraped = [k \in 1..(i - 1) |-> k]
               /\ page_data = <<>>
               /\ written = geocoded]_vars

\* main is about to fetch page 2 after having written a record of page 1
C17_Witness ==
    /\ mode = "incremental"
    /\ pc = "scrape_page"
    /\ i = 2
    /\ scraped = <<1>>
    /\ written # <<>>

\* the documents the collection held before the run: the run's own get _id 3 and up
StoredBefore(docs) == {k \in 1..Len(docs) : docs[k]["_id"] < 3}

\* C18: the phases of a bulk run do not overlap: nothing is geocoded while a page
\* is still to complete, nothing is written before every row of the batch has been
\* geocoded, and existing_orgs stays what it was loaded as, the names stored before
\* the run.
C18_PhaseOrdering ==
    mode = "bulk" =>
        /\ geocoded # <<>> =>
              /\ pending = {}
              /\ Len(scraped) = NumPages
              /\ pc \in {"get_coordinates", "save_to_mongo", "done", "aborted"}
        /\ pc \in {"distinct", "as_completed", "DataFrame", "get_coordinates",
                   "save_to_mongo", "aborted"} =>
              /\ written = <<>>
              /\ StoredBefore(store) = 1..Len(store)
              /\ \A k \in 1..Len(store) : store[k]["Scraped At"] = 0
        /\ written # <<>> =>
              /\ Len(geocoded) = Len(data)
              /\ Len(written) = Len(data)
              /\ EnrichedRows = 1..Len(rows)
        /\ pc # "distinct" =>
              existing_orgs = {store[k]["Organization Name"] : k \in StoredBefore(store)}

\* a bulk run that completed every page, geocoded its batch and wrote it
C18_Witness ==
    /\ mode = "bulk"
    /\ pc = "done"
    /\ Len(scraped) = NumPages
    /\ Len(written) >= 2
    /\ Len(geocoded) = Len(written)

\* C19: a bulk run whose pages all completed without yielding a new record (every
\* page empty, unavailable, or showing known names only) ends normally, without an
\* error, and leaves the collection as it was.
C19_EmptyBatchCompletes ==
    (/\ mode = "bulk"
     /\ Len(scraped) = NumPages
     /\ abort # "AttributeError"
     /\ data = <<>>) =>
        /\ abort = "none"
        /\ pc \in {"DataFrame", "done"}
        /\ StoredBefore(store) = 1..Len(store)

\* C20: two runs that are inside save_to_mongo at the same time with records of
\* the same name, a name the collection did not hold, leave at most one document
\* of that name, however their find_one, insert_one and update_one requests
\* interleave.
C20_AtMostOneDocument ==
    (/\ mode = "concurrent"
     /\ pc = "running"
     /\ \A w \in Runs : writers[w].pc = "done"
     /\ writers[1].record["Organization Name"] = writers[2].record["Organization Name"]
     /\ \A k \in StoredBefore(store) :
           store[k]["Organization Name"] # writers[1].record["Organization Name"]) =>
        Cardinality(DocsOf(store, writers[1].record["Organization Name"])) <= 1

====
